---------------------------- MODULE Spec2Model ----------------------------
(***************************************************************************)
(* A model of geohashingcomic.py: the Geohashing object (seed string, MD5  *)
(* digest, the two fractions), its lazily fetched dowjones property, and   *)
(* the GeohashingComic renderers that paste glyphs onto the template.      *)
(*                                                                         *)
(* Strings are sequences of one-character strings.  A byte is 0..255.  A   *)
(* 32-bit word is a pair <<hi, lo>> of 16-bit halves and a 64-bit integer  *)
(* is a sequence of 8 bytes, most significant first, so that no arithmetic *)
(* leaves the range of the model checker's integers.                       *)
(***************************************************************************)
EXTENDS Integers, Sequences, FiniteSets, TLC

VARIABLES
  gh,      \* the Geohashing objects constructed so far, in order
  im,      \* GeohashingComic.im: None, or the canvas
  size,    \* the pixel size of the glyph images held in GeohashingComic.digits
  net,     \* the requests made to the external index source, with its answers
  reads,   \* the values the dowjones property returned after construction
  out,     \* the images handed to im.show() / im.save(), in order
  mhash,   \* a hash object whose digest is about to be unpacked, or None
  raised   \* the exception the last call ended with, or "none"

vars == <<gh, im, size, net, reads, out, mhash, raised>>

None == [kind |-> "None"]

\* F applied to the value of v: v is evaluated once, before F is applied
Let(v, F(_)) == CHOOSE r \in {F(a) : a \in {v}} : TRUE

\* ------------------------------------------------------------------------
\* Sequences and characters
\* ------------------------------------------------------------------------

RECURSIVE SumSeq(_)
SumSeq(s) ==
  Let(s, LAMBDA v : IF v = <<>> THEN 0 ELSE Head(v) + SumSeq(Tail(v)))

\* n copies of c (none for n <= 0)
Repeat(c, n) == Let(n, LAMBDA k : [j \in 1..(IF k > 0 THEN k ELSE 0) |-> c])

\* s[a:b] of Python, for 0 <= a <= b (0-based, b exclusive, clipped to len(s))
Slice(s, a, b) ==
  Let(s, LAMBDA v :
    IF a >= Len(v) \/ a >= b THEN <<>>
    ELSE SubSeq(v, a + 1, IF b < Len(v) THEN b ELSE Len(v)))

DecChars == <<"0", "1", "2", "3", "4", "5", "6", "7", "8", "9">>
HexChars == DecChars \o <<"a", "b", "c", "d", "e", "f">>

\* the characters the formatted strings of this program are made of
AsciiTable ==
  [c \in {"0", "1", "2", "3", "4", "5", "6", "7", "8", "9"} |->
       CHOOSE k \in 48..57 : DecChars[k - 47] = c]
  @@ (" " :> 32) @@ ("+" :> 43) @@ ("-" :> 45) @@ ("." :> 46)
  @@ ("a" :> 97) @@ ("e" :> 101) @@ ("f" :> 102) @@ ("i" :> 105) @@ ("n" :> 110)

Ord(c) == AsciiTable[c]

\* the decimal digits of n >= 0, most significant first ("0" for 0)
RECURSIVE DecStr(_)
DecStr(n) ==
  Let(n, LAMBDA k :
    IF k < 10 THEN <<DecChars[k + 1]>>
    ELSE DecStr(k \div 10) \o <<DecChars[(k % 10) + 1]>>)

\* right-justify in a field of the given width, str.format's fill
PadLeft(s, width, fill) == Let(s, LAMBDA v : Repeat(fill, width - Len(v)) \o v)

\* ------------------------------------------------------------------------
\* hashlib.md5 (RFC 1321) of a message shorter than 56 bytes
\* ------------------------------------------------------------------------

W16 == 2 ^ 16

MD5K ==
  << <<55146, 42104>>, <<59591, 46934>>, <<9248, 28891>>, <<49597, 52974>>,
     <<62844, 4015>>, <<18311, 50730>>, <<43056, 17939>>, <<64838, 38145>>,
     <<27008, 39128>>, <<35652, 63407>>, <<65535, 23473>>, <<35164, 55230>>,
     <<27536, 4386>>, <<64920, 29075>>, <<42617, 17294>>, <<18868, 2081>>,
     <<63006, 9570>>, <<49216, 45888>>, <<9822, 23121>>, <<59830, 51114>>,
     <<54831, 4189>>, <<580, 5203>>, <<55457, 59009>>, <<59347, 64456>>,
     <<8673, 52710>>, <<49975, 2006>>, <<62677, 3463>>, <<17754, 5357>>,
     <<43491, 59653>>, <<64751, 41976>>, <<26479, 729>>, <<36138, 19594>>,
     <<65530, 14658>>, <<34673, 63105>>, <<28061, 24866>>, <<64997, 14348>>,
     <<42174, 59972>>, <<19422, 53161>>, <<63163, 19296>>, <<48831, 48240>>,
     <<10395, 32454>>, <<60065, 10234>>, <<54511, 12421>>, <<1160, 7429>>,
     <<55764, 53305>>, <<59099, 39397>>, <<8098, 31992>>, <<50348, 22117>>,
     <<62505, 8772>>, <<17194, 65431>>, <<43924, 9127>>, <<64659, 41017>>,
     <<25947, 22979>>, <<36620, 52370>>, <<65519, 62589>>, <<34180, 24017>>,
     <<28584, 32335>>, <<65068, 59104>>, <<41729, 17172>>, <<19976, 4513>>,
     <<63315, 32386>>, <<48442, 62005>>, <<10967, 53947>>, <<60294, 54161>> >>

MD5Shift ==
  << 7, 12, 17, 22, 7, 12, 17, 22, 7, 12, 17, 22, 7, 12, 17, 22,
     5, 9, 14, 20, 5, 9, 14, 20, 5, 9, 14, 20, 5, 9, 14, 20,
     4, 11, 16, 23, 4, 11, 16, 23, 4, 11, 16, 23, 4, 11, 16, 23,
     6, 10, 15, 21, 6, 10, 15, 21, 6, 10, 15, 21, 6, 10, 15, 21 >>

MD5Start == << <<26437, 8961>>, <<61389, 43913>>, <<39098, 56574>>, <<4146, 21622>> >>

\* a + b modulo 2^32
AddW(a, b) ==
  Let(<<a, b>>, LAMBDA p :
    Let(p[1][2] + p[2][2], LAMBDA lo :
      <<(p[1][1] + p[2][1] + (lo \div W16)) % W16, lo % W16>>))

\* a rotated left by s bits, 0 < s < 32
RotL(a, s) ==
  Let(IF s >= 16 THEN <<a[2], a[1]>> ELSE a, LAMBDA w :
    << ((w[1] * (2 ^ (s % 16))) % W16) + (w[2] \div (2 ^ (16 - (s % 16)))),
       ((w[2] * (2 ^ (s % 16))) % W16) + (w[1] \div (2 ^ (16 - (s % 16)))) >>)

\* the round functions F, G, H, I of MD5, bit by bit over n bits
RECURSIVE MD5Mix(_, _, _, _, _)
MD5Mix(round, b, c, d, n) ==
  IF n = 0 THEN 0
  ELSE LET bb == b % 2
           cb == c % 2
           db == d % 2
           bit == CASE round = 0 -> (IF bb = 1 THEN cb ELSE db)
                    [] round = 1 -> (IF db = 1 THEN bb ELSE cb)
                    [] round = 2 -> (bb + cb + db) % 2
                    [] OTHER     -> (cb + (IF bb = 1 \/ db = 0 THEN 1 ELSE 0)) % 2
       IN  bit + 2 * MD5Mix(round, b \div 2, c \div 2, d \div 2, n - 1)

MD5Index(i) ==
  CASE i < 16 -> i
    [] i < 32 -> (5 * i + 1) % 16
    [] i < 48 -> (3 * i + 5) % 16
    [] OTHER  -> (7 * i) % 16

\* one step of the MD5 main loop: i is the step, st is <<A, B, C, D>>
MD5Step(i, st, M) ==
  LET A == st[1]
      B == st[2]
      C == st[3]
      D == st[4]
      f == << MD5Mix(i \div 16, B[1], C[1], D[1], 16),
              MD5Mix(i \div 16, B[2], C[2], D[2], 16) >>
      t == AddW(AddW(f, A), AddW(MD5K[i + 1], M[MD5Index(i) + 1]))
  IN  <<D, AddW(B, RotL(t, MD5Shift[i + 1])), B, C>>

\* steps i .. i + n - 1 of the main loop, in order (split in halves so that
\* the evaluation nests only a few levels deep)
RECURSIVE MD5Rounds(_, _, _, _)
MD5Rounds(i, n, st, M) ==
  IF n = 1 THEN Let(st, LAMBDA v : MD5Step(i, v, M))
  ELSE Let(MD5Rounds(i, n \div 2, st, M), LAMBDA half :
         MD5Rounds(i + (n \div 2), n - (n \div 2), half, M))

\* the single padded block: message, 0x80, zeros, bit length little-endian
MD5Block(msg) ==
  Let(msg, LAMBDA m :
    m \o <<128>> \o Repeat(0, 55 - Len(m))
      \o <<(8 * Len(m)) % 256, (8 * Len(m)) \div 256, 0, 0, 0, 0, 0, 0>>)

\* the 16 little-endian words of a block
MD5Words(block) ==
  Let(block, LAMBDA b :
    [j \in 1..16 |-> << b[4 * j - 1] + 256 * b[4 * j],
                        b[4 * j - 3] + 256 * b[4 * j - 2] >>])

WordBytes(word) ==
  Let(word, LAMBDA w : <<w[2] % 256, w[2] \div 256, w[1] % 256, w[1] \div 256>>)

\* md5(msg).digest(): 16 bytes
MD5(msg) ==
  Let(MD5Words(MD5Block(msg)), LAMBDA M :
    Let(MD5Rounds(0, 64, MD5Start, M), LAMBDA st :
      WordBytes(AddW(MD5Start[1], st[1])) \o WordBytes(AddW(MD5Start[2], st[2]))
        \o WordBytes(AddW(MD5Start[3], st[3]))
        \o WordBytes(AddW(MD5Start[4], st[4]))))

\* md5(msg).hexdigest(): two lowercase hex characters per byte
HexDigest(bytes) ==
  Let(bytes, LAMBDA b :
    [j \in 1..(2 * Len(b)) |->
       IF j % 2 = 1 THEN HexChars[(b[(j + 1) \div 2] \div 16) + 1]
       ELSE HexChars[(b[j \div 2] % 16) + 1]])

\* ------------------------------------------------------------------------
\* struct.unpack(">Q", half)[0] / (2. ** 64) and str() of the result
\*
\* A float in [0, 1] with at most 53 significant bits is held exactly, as the
\* 9 bytes (most significant first) of the integer v with value v / 2^64;
\* the first byte is 1 only for the value 1.0.
\* ------------------------------------------------------------------------

\* big-endian bytes plus a small integer a >= 0; the first byte takes the carry
RECURSIVE AddSmall(_, _)
AddSmall(bytes, a) ==
  Let(<<bytes, a>>, LAMBDA p :
    IF Len(p[1]) = 1 THEN <<p[1][1] + p[2]>>
    ELSE AddSmall(SubSeq(p[1], 1, Len(p[1]) - 1), (p[1][Len(p[1])] + p[2]) \div 256)
           \o <<(p[1][Len(p[1])] + p[2]) % 256>>)

RECURSIVE BitLen(_)
BitLen(b) == IF b = 0 THEN 0 ELSE 1 + BitLen(b \div 2)

\* the number of significant bits of a big-endian byte sequence
SigBits(bytes) ==
  Let(bytes, LAMBDA b :
    IF \A j \in 1..Len(b) : b[j] = 0 THEN 0
    ELSE Let(CHOOSE j \in 1..Len(b) : b[j] # 0 /\ \A k \in 1..(j - 1) : b[k] = 0,
             LAMBDA j : 8 * (Len(b) - j) + BitLen(b[j])))

\* the 8-byte integer h with its k low bits rounded away, ties to even, k > 0
RoundBits(h, k) ==
  LET q    == 2 ^ k
      lo   == 256 * h[7] + h[8]
      r    == lo % q
      base == lo - r
      up   == (2 * r > q) \/ (2 * r = q /\ (lo \div q) % 2 = 1)
  IN  AddSmall(<<0>> \o SubSeq(h, 1, 6) \o <<0, 0>>, IF up THEN base + q ELSE base)

\* int -> float: the 64-bit integer rounded to 53 significant bits
ToDouble(half) ==
  Let(half, LAMBDA h :
    Let(SigBits(h) - 53, LAMBDA k :
      IF k <= 0 THEN <<0>> \o h ELSE RoundBits(h, k)))

\* the division by 2. ** 64 is exact: it only moves the binary point
Fraction(half) == ToDouble(half)

FloatZero == <<0, 0, 0, 0, 0, 0, 0, 0, 0>>
FloatOne  == <<1, 0, 0, 0, 0, 0, 0, 0, 0>>

\* bytes / 256^Len(bytes), a value below 1, times ten: the first element of
\* the result is the integer part (a decimal digit), the rest the fraction
TimesTen(bytes) ==
  Let(bytes, LAMBDA b : AddSmall(<<0>> \o [j \in 1..Len(b) |-> 10 * b[j]], 0))

\* the next n decimal digits of that value, followed by the fraction left
\* over (split in halves so that the evaluation nests only a few levels deep)
RECURSIVE DigitsAndRest(_, _)
DigitsAndRest(bytes, n) ==
  IF n = 1 THEN Let(TimesTen(bytes), LAMBDA t : <<<<t[1]>>, Tail(t)>>)
  ELSE Let(DigitsAndRest(bytes, n \div 2), LAMBDA a :
         Let(DigitsAndRest(a[2], n - (n \div 2)), LAMBDA b :
           <<a[1] \o b[1], b[2]>>))

\* the first n decimal digits of (bytes / 256^Len(bytes))
DecimalDigits(bytes, n) == DigitsAndRest(bytes, n)[1]

\* the number of zeros a digit sequence starts with
LeadingZeros(digits) ==
  Let(digits, LAMBDA d :
    IF \A j \in 1..Len(d) : d[j] = 0 THEN Len(d)
    ELSE (CHOOSE j \in 1..Len(d) : d[j] # 0 /\ \A k \in 1..(j - 1) : d[k] = 0) - 1)

\* a digit sequence without its trailing zeros (its first digit is kept)
StripZeros(digits) ==
  Let(digits, LAMBDA d :
    SubSeq(d, 1, CHOOSE j \in 1..Len(d) :
                   /\ j = 1 \/ d[j] # 0
                   /\ \A k \in (j + 1)..Len(d) : d[k] = 0))

\* decimal digits plus one, the first element of the result taking the carry
IncDigits(digits) ==
  Let(digits, LAMBDA d :
    IF \A j \in 1..Len(d) : d[j] = 9 THEN <<1>> \o [j \in 1..Len(d) |-> 0]
    ELSE Let(CHOOSE j \in 1..Len(d) : d[j] # 9 /\ \A k \in (j + 1)..Len(d) : d[k] = 9,
             LAMBDA j : <<0>> \o [k \in 1..Len(d) |->
                                    IF k < j THEN d[k] ELSE IF k = j THEN d[k] + 1 ELSE 0]))

DigitChars(digits) == Let(digits, LAMBDA d : [j \in 1..Len(d) |-> DecChars[d[j] + 1]])

StrPrecision == 12

\* the decimal expansion D (after the point) with z leading zeros, rounded to
\* StrPrecision significant digits, half to even: the digits kept, after a
\* first element that is 1 when the rounding carried into a new digit
RoundDigits(D, z) ==
  LET sig  == SubSeq(D, z + 1, z + StrPrecision)
      nxt  == D[z + StrPrecision + 1]
      up   == \/ nxt > 5
              \/ nxt = 5 /\ (\E j \in (z + StrPrecision + 2)..Len(D) : D[j] # 0)
              \/ nxt = 5 /\ D[z + StrPrecision] % 2 = 1
  IN  IF up THEN IncDigits(sig) ELSE <<0>> \o sig

\* "%.12g" of a float strictly between 0 and 1, from its rounded digits r
\* (as RoundDigits returns them) and the leading zeros z of its expansion
FormatG(r, z) ==
  LET X == IF r[1] = 1 THEN 0 - z ELSE 0 - (z + 1)  \* the decimal exponent
  IN  Let(DigitChars(StripZeros(IF r[1] = 1 THEN SubSeq(r, 1, StrPrecision)
                                ELSE Tail(r))), LAMBDA m :
        IF X = 0 THEN <<"1", ".", "0">>
        ELSE IF X < -4
          THEN <<m[1]>> \o (IF Len(m) > 1 THEN <<".">> \o Tail(m) ELSE <<>>)
                 \o <<"e", "-">> \o PadLeft(DecStr(0 - X), 2, "0")
          ELSE <<"0", ".">> \o Repeat("0", (0 - X) - 1) \o m)

\* str(x) of Python 2 for a float 0 <= x <= 1: "%.12g", with ".0" appended to a
\* result that looks like an integer
FloatStr(x) ==
  Let(x, LAMBDA v :
    IF v = FloatOne THEN <<"1", ".", "0">>
    ELSE IF v = FloatZero THEN <<"0", ".", "0">>
    ELSE Let(DecimalDigits(Tail(v), 64) \o Repeat(0, StrPrecision + 1), LAMBDA D :
           Let(LeadingZeros(D), LAMBDA z :
             Let(RoundDigits(D, z), LAMBDA r : FormatG(r, z)))))

\* ------------------------------------------------------------------------
\* Floats given by the caller or the index source, and str.format
\*
\* A finite float is held as a decimal: [kind |-> "num", n, scale] is
\* n / 10^scale (scale 2 for the index, 6 for lat and lon); inf and nan are
\* kinds of their own.
\* ------------------------------------------------------------------------

Num(n, scale) == [kind |-> "num", n |-> n, scale |-> scale]
Inf == [kind |-> "inf", n |-> 0, scale |-> 0]
NaN == [kind |-> "nan", n |-> 0, scale |-> 0]

\* Python's truth value of a float: only 0.0 is false (nan and inf are true)
Truthy(v) == ~(v.kind = "num" /\ v.n = 0)

Abs(n) == IF n < 0 THEN 0 - n ELSE n

\* "{:<plus><width>.<prec>f}".format(x), for prec >= x.scale
FormatFloat(x, plus, width, prec) ==
  Let(x, LAMBDA v :
    LET sign == IF v.kind = "num" /\ v.n < 0 THEN <<"-">>
                ELSE IF plus THEN <<"+">> ELSE <<>>
        body == CASE v.kind = "inf" -> <<"i", "n", "f">>
                  [] v.kind = "nan" -> <<"n", "a", "n">>
                  [] OTHER ->
                       DecStr(Abs(v.n) \div (10 ^ v.scale)) \o <<".">>
                         \o PadLeft(DecStr(Abs(v.n) % (10 ^ v.scale)), v.scale, "0")
                         \o Repeat("0", prec - v.scale)
    IN  PadLeft(sign \o body, width, " "))

\* "{:<fill><width>d}".format(n) for n >= 0
FormatInt(n, width, fill) == PadLeft(DecStr(n), width, fill)

\* ------------------------------------------------------------------------
\* datetime.date
\* ------------------------------------------------------------------------

Date(y, m, d) == [year |-> y, month |-> m, day |-> d]

DateGE(a, b) ==
  \/ a.year > b.year
  \/ a.year = b.year /\ a.month > b.month
  \/ a.year = b.year /\ a.month = b.month /\ a.day >= b.day

IsLeap(y) == (y % 4 = 0 /\ y % 100 # 0) \/ y % 400 = 0

DaysInMonth(y, m) ==
  IF m = 2 THEN (IF IsLeap(y) THEN 29 ELSE 28)
  ELSE IF m \in {4, 6, 9, 11} THEN 30 ELSE 31

\* date - datetime.timedelta(w30), w30 in {0, 1}
DateMinus(a, w30) ==
  IF w30 = 0 THEN a
  ELSE IF a.day > 1 THEN Date(a.year, a.month, a.day - 1)
  ELSE IF a.month > 1 THEN Date(a.year, a.month - 1, DaysInMonth(a.year, a.month - 1))
  ELSE Date(a.year - 1, 12, 31)

W30Start == Date(2008, 5, 27)
W30Lon   == Num(-30000000, 6)

\* ------------------------------------------------------------------------
\* Geohashing
\*
\* An object is a record of its attributes date, lat, lon, _dowjones, hexdig,
\* lato, lono, and two fields that only record history: arg, the dowjones
\* argument of the constructor, and seed, the value formatted into inp.
\* ------------------------------------------------------------------------

\* what urlopen(...).read() answers: the 404 page, or the text of a number
NotFound == [kind |-> "404", value |-> Num(0, 2)]
Text(v)  == [kind |-> "text", value |-> v]

\* A faulty variant of the dowjones property, which asks the source on every
\* read: the determinism stated as C1 must fail of it.
DowjonesRefetch(self, answer) ==
  LET w30  == IF self.lon.n > W30Lon.n /\ DateGE(self.date, W30Start) THEN 1 ELSE 0
      djia == IF answer.kind = "404" THEN Num(-100, 2) ELSE answer.value
  IN  [self    |-> [self EXCEPT !._dowjones = djia],
       value   |-> djia,
       request |-> DateMinus(self.date, w30)]

\* the dowjones property, read on object self when the source would answer
\* `answer`: the object after the read, the value returned, and the date
\* requested from the source (None when nothing was fetched)
Dowjones(self, answer) ==
  IF ~Truthy(self._dowjones)
    THEN LET w30  == IF self.lon.n > W30Lon.n /\ DateGE(self.date, W30Start)
                       THEN 1 ELSE 0
             djia == IF answer.kind = "404" THEN Num(-100, 2) ELSE answer.value
         IN  [self    |-> [self EXCEPT !._dowjones = djia],
              value   |-> djia,
              request |-> DateMinus(self.date, w30)]
    ELSE [self |-> self, value |-> self._dowjones, request |-> None]

\* the seed string inp
SeedString(date, dowjones) ==
  FormatInt(date.year, 4, " ") \o <<"-">> \o FormatInt(date.month, 2, "0")
    \o <<"-">> \o FormatInt(date.day, 2, "0") \o <<"-">>
    \o FormatFloat(dowjones, FALSE, 0, 2)

Encode(str) == Let(str, LAMBDA s : [j \in 1..Len(s) |-> Ord(s[j])])

\* the object as the first four assignments of __init__ leave it
Fields(date, dowjones, lat, lon) ==
  [date |-> date, lat |-> lat, lon |-> lon, _dowjones |-> dowjones,
   hexdig |-> <<>>, lato |-> FloatZero, lono |-> FloatZero,
   arg |-> dowjones, seed |-> None]

\* the end of Geohashing.__init__: hexdig, lato and lono from the digest
Unpack(self, digest) ==
  Let(digest, LAMBDA d :
    [self EXCEPT !.hexdig = HexDigest(d),
                 !.lato   = Fraction(SubSeq(d, 1, 8)),
                 !.lono   = Fraction(SubSeq(d, 9, 16))])

\* Geohashing.__init__: the object, and the date it requested from the index
\* source (None when it fetched nothing)
NewGeohashing(date, dowjones, lat, lon, answer) ==
  Let(Dowjones(Fields(date, dowjones, lat, lon), answer), LAMBDA rd :
    Let(MD5(Encode(SeedString(date, rd.value))), LAMBDA digest :
      [self    |-> Unpack([rd.self EXCEPT !.seed = rd.value], digest),
       request |-> rd.request]))

\* ------------------------------------------------------------------------
\* GeohashingComic: the glyphs and the six field renderers
\*
\* A renderer is modelled by the pastes it attempts, in order, each
\* [by, c, x, y, i]: the renderer, the key looked up in digits, the box's
\* upper left corner, and the loop index i.  A key that digits does not hold
\* raises KeyError at that lookup.
\* ------------------------------------------------------------------------

\* the keys of GeohashingComic.digits
GlyphKeys == {HexChars[k] : k \in 1..16} \cup {"-"}

Attempt(by, c, x, y, i) == [by |-> by, c |-> c, x |-> x, y |-> y, i |-> i]

\* for i, c in enumerate(str): paste c at (x0 + pitch * i, y)
FixedPitch(by, str, x0, pitch, y) ==
  Let(str, LAMBDA s :
    [j \in 1..Len(s) |-> Attempt(by, s[j], x0 + pitch * (j - 1), y, j - 1)])

draw_date(self) ==
  FixedPitch("draw_date", FormatInt(self.date.year, 4, "0"), 24, 12, 78)
    \o FixedPitch("draw_date", FormatInt(self.date.month, 2, "0"), 88, 11, 78)
    \o FixedPitch("draw_date", FormatInt(self.date.day, 2, "0"), 120, 12, 78)

\* sum(change for check, change in checks_raw if check)
SumChecks(checks_raw) ==
  SumSeq([j \in 1..Len(checks_raw) |->
            IF checks_raw[j][1] THEN checks_raw[j][2] ELSE 0])

RECURSIVE DowjonesLoop(_, _, _)
DowjonesLoop(str, i, hofs) ==
  IF i >= Len(str) THEN <<>>
  ELSE LET c == str[i + 1]
           offset_change == SumChecks(<< <<i = 1, -3>>, <<i = 5, -3>> >>)
       IN  Let(hofs + offset_change, LAMBDA h :
             (IF ~(c = "." \/ c = " ")
                THEN <<Attempt("draw_dowjones", c, h + 10 * i, 78, i)>>
                ELSE <<>>)
               \o DowjonesLoop(str, i + 1, h))

\* draw_dowjones, given the value its read of the dowjones property returned
draw_dowjones(value) ==
  Let(FormatFloat(value, FALSE, 8, 2), LAMBDA str : DowjonesLoop(str, 0, 165))

\* the first loop of draw_hash, over hexdig[0:16]: the pastes attempted and
\* the value hofs is left with
RECURSIVE HashLoop1(_, _, _, _)
HashLoop1(str, i, hofs, w) ==
  IF i >= Len(str) THEN <<<<>>, hofs>>
  ELSE Let(hofs, LAMBDA h :
         Let(HashLoop1(str, i + 1, h + w[str[i + 1]], w), LAMBDA rest :
           << <<Attempt("draw_hash", str[i + 1], h, 82, i),
                Attempt("draw_hash", str[i + 1], h - 9, 129, i)>> \o rest[1],
              rest[2] >>))

\* A faulty variant of the second loop, advancing by a fixed pitch of 10
\* instead of the glyph's width: the placement stated as C9 must fail of it.
RECURSIVE HashLoop2Pitch(_, _, _, _, _)
HashLoop2Pitch(str, i, hofs, hofs2, w) ==
  IF i >= Len(str) THEN <<>>
  ELSE Let(<<hofs, hofs2>>, LAMBDA h :
         <<Attempt("draw_hash", str[i + 1], h[1], 82, 16 + i),
           Attempt("draw_hash", str[i + 1], h[2], 129, 16 + i)>>
           \o HashLoop2Pitch(str, i + 1, h[1] + 10, h[2] + 10, w))

\* the second loop of draw_hash, over hexdig[16:32]
RECURSIVE HashLoop2(_, _, _, _, _)
HashLoop2(str, i, hofs, hofs2, w) ==
  IF i >= Len(str) THEN <<>>
  ELSE Let(<<hofs, hofs2>>, LAMBDA h :
         <<Attempt("draw_hash", str[i + 1], h[1], 82, 16 + i),
           Attempt("draw_hash", str[i + 1], h[2], 129, 16 + i)>>
           \o HashLoop2(str, i + 1, h[1] + w[str[i + 1]], h[2] + w[str[i + 1]], w))

\* draw_hash, w[c] being digits[c].size[0]
draw_hash(self, w) ==
  Let(<<Slice(self.hexdig, 0, 16), Slice(self.hexdig, 16, 32)>>, LAMBDA str :
    Let(HashLoop1(str[1], 0, 301, w), LAMBDA first :
      first[1] \o HashLoop2(str[2], 0, first[2] + 14, 466, w)))

LatChecks(c, i) ==
  << <<TRUE, 10>>,
     <<c = "1" /\ i > 3, -5>>,
     <<c = ".", 2>>,
     <<c = "-", -1>>,
     <<c = "+", -1>>,
     <<c = " ", -2>> >>

\* A faulty variant of the loop of draw_latitude, mirroring the characters
\* of index below 2: the count stated as C3 must fail of it.
RECURSIVE LatitudeLoopTwo(_, _, _)
LatitudeLoopTwo(str, i, hofs) ==
  IF i >= Len(str) THEN <<>>
  ELSE Let(hofs, LAMBDA h :
         LET c == str[i + 1]
             offset_change == SumChecks(LatChecks(c, i))
         IN  (IF c \notin {" ", "+", "."}
                THEN <<Attempt("draw_latitude", c, h, 168, i)>>
                       \o (IF i < 2
                             THEN <<Attempt("draw_latitude", c, h + 110, 266, i)>>
                             ELSE <<>>)
                ELSE <<>>)
               \o LatitudeLoopTwo(str, i + 1, h + offset_change))

\* A faulty variant that skips only the space and the dot, and so looks up a
\* glyph for "+": what C8 states of the glyphs must fail of it.
RECURSIVE LatitudeLoopSign(_, _, _)
LatitudeLoopSign(str, i, hofs) ==
  IF i >= Len(str) THEN <<>>
  ELSE Let(hofs, LAMBDA h :
         LET c == str[i + 1]
             offset_change == SumChecks(LatChecks(c, i))
         IN  (IF c \notin {" ", "."}
                THEN <<Attempt("draw_latitude", c, h, 168, i)>>
                       \o (IF i < 3
                             THEN <<Attempt("draw_latitude", c, h + 110, 266, i)>>
                             ELSE <<>>)
                ELSE <<>>)
               \o LatitudeLoopSign(str, i + 1, h + offset_change))

RECURSIVE LatitudeLoop(_, _, _)
LatitudeLoop(str, i, hofs) ==
  IF i >= Len(str) THEN <<>>
  ELSE Let(hofs, LAMBDA h :
         LET c == str[i + 1]
             offset_change == SumChecks(LatChecks(c, i))
         IN  (IF c \notin {" ", "+", "."}
                THEN <<Attempt("draw_latitude", c, h, 168, i)>>
                       \o (IF i < 3
                             THEN <<Attempt("draw_latitude", c, h + 110, 266, i)>>
                             ELSE <<>>)
                ELSE <<>>)
               \o LatitudeLoop(str, i + 1, h + offset_change))

draw_latitude(self) ==
  Let(FormatFloat(self.lat, TRUE, 10, 6), LAMBDA str : LatitudeLoop(str, 0, 25))

LonChecks(c, i) ==
  << <<TRUE, 10>>,
     <<c = "1" /\ i > 4, -5>>,
     <<c = ".", 3>>,
     <<c = "-", -1>>,
     <<c = "+", -2>>,
     <<c = " ", -2>> >>

\* A faulty variant of the advance, which forgets to take offset_change3
\* off again: the cursor stated as C7 must fail of it.
LonAdvanceTwice(c, i) ==
  LET offset_change  == SumChecks(LonChecks(c, i))
      offset_change2 == SumChecks(LonChecks(c, i))
  IN  offset_change + offset_change2

\* what one pass of the loop of draw_longitude adds to hofs
LonAdvance(c, i) ==
  LET offset_change  == SumChecks(LonChecks(c, i))
      offset_change2 == SumChecks(LonChecks(c, i))
      offset_change3 == SumChecks(LonChecks(c, i))
  IN  offset_change + offset_change2 - offset_change3

RECURSIVE LongitudeLoop(_, _, _)
LongitudeLoop(str, i, hofs) ==
  IF i >= Len(str) THEN <<>>
  ELSE Let(hofs, LAMBDA h :
         LET c == str[i + 1]
         IN  (IF c \notin {" ", "+", "."}
                THEN <<Attempt("draw_longitude", c, h, 169, i)>>
                       \o (IF i < 4
                             THEN <<Attempt("draw_longitude", c, h + 138, 269, i)>>
                             ELSE <<>>)
                ELSE <<>>)
               \o LongitudeLoop(str, i + 1, h + LonAdvance(c, i)))

draw_longitude(self) ==
  Let(FormatFloat(self.lon, TRUE, 11, 6), LAMBDA str : LongitudeLoop(str, 0, 143))

\* zip(a, b): as long as the shorter of the two
Zip(a, b) ==
  Let(<<a, b>>, LAMBDA p :
    [j \in 1..(IF Len(p[1]) < Len(p[2]) THEN Len(p[1]) ELSE Len(p[2])) |->
       <<p[1][j], p[2][j]>>])

\* A faulty variant of the loop of draw_coordinate_decimals, whose second
\* paste starts 10 pixels further left, under the mirrored latitude: the
\* commutation stated as C6 must fail of it.
DecimalsLoopLeft(pairs) ==
  [k \in 1..(4 * Len(pairs)) |->
     LET i == (k - 1) \div 4
     IN  CASE k % 4 = 1 ->
                Attempt("draw_coordinate_decimals", pairs[i + 1][1], 300 + 10 * i, 174, i)
           [] k % 4 = 2 ->
                Attempt("draw_coordinate_decimals", pairs[i + 1][1], 166 + 10 * i, 267, i)
           [] k % 4 = 3 ->
                Attempt("draw_coordinate_decimals", pairs[i + 1][2], 450 + 10 * i, 174, i)
           [] OTHER ->
                Attempt("draw_coordinate_decimals", pairs[i + 1][2], 335 + 10 * i, 269, i)]

\* for i, (c1, c2) in enumerate(pairs): the four pastes of each pass
DecimalsLoop(pairs) ==
  [k \in 1..(4 * Len(pairs)) |->
     LET i == (k - 1) \div 4
     IN  CASE k % 4 = 1 ->
                Attempt("draw_coordinate_decimals", pairs[i + 1][1], 300 + 10 * i, 174, i)
           [] k % 4 = 2 ->
                Attempt("draw_coordinate_decimals", pairs[i + 1][1], 176 + 10 * i, 267, i)
           [] k % 4 = 3 ->
                Attempt("draw_coordinate_decimals", pairs[i + 1][2], 450 + 10 * i, 174, i)
           [] OTHER ->
                Attempt("draw_coordinate_decimals", pairs[i + 1][2], 335 + 10 * i, 269, i)]

draw_coordinate_decimals(self) ==
  Let(Zip(Slice(FloatStr(self.lato), 2, 8), Slice(FloatStr(self.lono), 2, 8)),
      LAMBDA pairs : DecimalsLoop(pairs))

\* the order of make()
Renderers ==
  <<"draw_date", "draw_dowjones", "draw_hash", "draw_latitude",
    "draw_longitude", "draw_coordinate_decimals">>

\* the pastes a renderer attempts; value is what its read of the dowjones
\* property returned
Attempts(name, self, value, w) ==
  CASE name = "draw_date"      -> draw_date(self)
    [] name = "draw_dowjones"  -> draw_dowjones(value)
    [] name = "draw_hash"      -> draw_hash(self, w)
    [] name = "draw_latitude"  -> draw_latitude(self)
    [] name = "draw_longitude" -> draw_longitude(self)
    [] OTHER                   -> draw_coordinate_decimals(self)

\* the pastes made before the first failing lookup
Pasted(attempts) ==
  LET failing == {j \in 1..Len(attempts) : attempts[j].c \notin GlyphKeys}
  IN  IF failing = {} THEN attempts
      ELSE SubSeq(attempts, 1, (CHOOSE j \in failing : \A k \in failing : j <= k) - 1)

\* Image.open("geohashingclean.png"): the template, nothing pasted yet.
\* pastes are the im.paste calls made on the image, in order; applied lists
\* the renderers that ran on it to completion.
Template == [kind |-> "Image", pastes |-> <<>>, applied |-> <<>>]

\* One renderer run on canvas `canvas` of the comic of object self: the
\* canvas and the object afterwards, whether KeyError was raised, what the
\* read of the dowjones property returned and requested (None if not read).
Draw(name, self, canvas, sz, answer) ==
  Let(IF name = "draw_dowjones" THEN Dowjones(self, answer)
      ELSE [self |-> self, value |-> None, request |-> None], LAMBDA rd :
    Let(Attempts(name, rd.self, rd.value, sz.w), LAMBDA attempts :
      Let(Pasted(attempts), LAMBDA done :
        [im      |-> [kind    |-> "Image",
                      pastes  |-> canvas.pastes \o done,
                      applied |-> IF Len(done) = Len(attempts)
                                    THEN Append(canvas.applied, name)
                                    ELSE canvas.applied],
         self    |-> rd.self,
         raised  |-> IF Len(done) = Len(attempts) THEN "none" ELSE "KeyError",
         value   |-> rd.value,
         request |-> rd.request])))

\* the renderers names[k..], in order, stopping at the first exception
RECURSIVE DrawAll(_, _, _, _, _, _)
DrawAll(names, k, self, canvas, sz, answer) ==
  IF k > Len(names)
    THEN [im |-> canvas, self |-> self, raised |-> "none",
          value |-> None, request |-> None]
  ELSE Let(Draw(names[k], self, canvas, sz, answer), LAMBDA d :
         IF d.raised # "none" THEN d
         ELSE Let(DrawAll(names, k + 1, d.self, d.im, sz, answer), LAMBDA t :
                [t EXCEPT !.value   = IF d.value # None THEN d.value ELSE @,
                          !.request = IF d.value # None THEN d.request ELSE @]))

\* GeohashingComic.make()
make(self, sz, answer) == DrawAll(Renderers, 1, self, Template, sz, answer)

\* ------------------------------------------------------------------------
\* The inputs explored
\* ------------------------------------------------------------------------

MaxCalls   == 3   \* calls of make(), show() and cgi() on one comic
MaxObjects == 2   \* Geohashing objects constructed side by side

Dates == {Date(2005, 5, 26), Date(2008, 6, 1)}

\* the dowjones argument: the default 0.0, the comic's own 10458.68, two values
\* whose fractions print short or with an exponent, and the non-finite ones
IndexValues ==
  {Num(0, 2), Num(1045868, 2), Num(3709763, 2), Num(503415, 2), Inf, NaN}

\* lat, lon
Places ==
  { <<Num(37421542, 6), Num(-122085589, 6)>>,
    <<Num(-5500000, 6), Num(4910000, 6)>> }

\* what the index source may answer to a request
Answers == {NotFound, Text(Num(1045868, 2)), Text(Num(0, 2))}

\* the size of the glyph images: a width per key and the common height
GlyphSize(w1, wdigit, wletter, h) ==
  [w |-> [c \in GlyphKeys |->
            IF c = "1" THEN w1
            ELSE IF c \in {"a", "b", "c", "d", "e", "f"} THEN wletter
            ELSE wdigit],
   h |-> h]

ComicSizes == {GlyphSize(5, 10, 11, 15)}

\* ------------------------------------------------------------------------
\* Spec: one GeohashingComic and the calls of make(), show() and cgi() on it
\* ------------------------------------------------------------------------

Fetch(obj, request, answer) ==
  IF request = None THEN <<>>
  ELSE <<[obj |-> obj, request |-> request, answer |-> answer]>>

Read(value) == IF value = None THEN <<>> ELSE <<value>>

\* GeohashingComic.__init__, g being what Geohashing.__init__ returned
NewComic(g, answer) ==
  /\ gh = <<g.self>>
  /\ im = None
  /\ size \in ComicSizes
  /\ net = Fetch(1, g.request, answer)
  /\ reads = <<>>
  /\ out = <<>>
  /\ mhash = None
  /\ raised = "none"

Init ==
  \E date \in Dates, dowjones \in IndexValues, place \in Places, answer \in Answers :
    \E g \in {NewGeohashing(date, dowjones, place[1], place[2], answer)} :
      NewComic(g, answer)

Calls == Len(reads) + Len(out)

\* `if not self.im: self.make()`: an Image is true, None is not
MakeIfNone(answer) ==
  IF im = None THEN make(gh[1], size, answer)
  ELSE [im |-> im, self |-> gh[1], raised |-> "none",
        value |-> None, request |-> None]

Make ==
  /\ Calls < MaxCalls
  /\ \E answer \in Answers :
       \E m \in {make(gh[1], size, answer)} :
         /\ gh' = <<m.self>>
         /\ im' = m.im
         /\ raised' = m.raised
         /\ reads' = reads \o Read(m.value)
         /\ net' = net \o Fetch(1, m.request, answer)
         /\ UNCHANGED <<size, out, mhash>>

Show ==
  /\ Calls < MaxCalls
  /\ \E answer \in Answers :
       \E m \in {MakeIfNone(answer)} :
         /\ gh' = <<m.self>>
         /\ im' = m.im
         /\ raised' = m.raised
         /\ reads' = reads \o Read(m.value)
         /\ net' = net \o Fetch(1, m.request, answer)
         /\ out' = IF m.raised = "none"
                     THEN Append(out, [call |-> "show", fn |-> <<>>, im |-> m.im])
                     ELSE out
         /\ UNCHANGED <<size, mhash>>

\* "comics/{:d}-{:d}-{:d}_{:f}_{:f}_{:f}.png"
FileName(self, dowjones) ==
  <<"comics/">> \o DecStr(self.date.year) \o <<"-">> \o DecStr(self.date.month)
    \o <<"-">> \o DecStr(self.date.day)
    \o <<"_">> \o FormatFloat(dowjones, FALSE, 0, 6)
    \o <<"_">> \o FormatFloat(self.lat, FALSE, 0, 6)
    \o <<"_">> \o FormatFloat(self.lon, FALSE, 0, 6) \o <<".png">>

Cgi ==
  /\ Calls < MaxCalls
  /\ \E answer \in Answers, answer2 \in Answers :
       \E m \in {MakeIfNone(answer)} :
         \E rd \in {Dowjones(m.self, answer2)} :
           IF m.raised # "none"
             THEN /\ gh' = <<m.self>>
                  /\ im' = m.im
                  /\ raised' = m.raised
                  /\ reads' = reads \o Read(m.value)
                  /\ net' = net \o Fetch(1, m.request, answer)
                  /\ UNCHANGED <<size, out, mhash>>
             ELSE /\ gh' = <<rd.self>>
                  /\ im' = m.im
                  /\ raised' = "none"
                  /\ reads' = reads \o Read(m.value) \o <<rd.value>>
                  /\ net' = net \o Fetch(1, m.request, answer)
                                \o Fetch(1, rd.request, answer2)
                  /\ out' = Append(out, [call |-> "save",
                                         fn   |-> FileName(rd.self, rd.value),
                                         im   |-> m.im])
                  /\ UNCHANGED <<size, mhash>>

Next == Make \/ Show \/ Cgi

Spec == Init /\ [][Next]_vars

\* ------------------------------------------------------------------------
\* SpecDerive: Geohashing objects constructed one after the other, the index
\* source answering each request as it likes
\* ------------------------------------------------------------------------

DeriveIndexValues == {Num(0, 2), Num(1045868, 2), Inf}

\* the defaults of Geohashing.__init__
DefaultLat == Num(37421542, 6)
DefaultLon == Num(-122085589, 6)

InitDerive ==
  /\ gh = <<>>
  /\ im = None
  /\ size \in ComicSizes
  /\ net = <<>>
  /\ reads = <<>>
  /\ out = <<>>
  /\ mhash = None
  /\ raised = "none"

Construct ==
  /\ Len(gh) < MaxObjects
  /\ \E date \in Dates, dowjones \in DeriveIndexValues, answer \in Answers :
       \E g \in {NewGeohashing(date, dowjones, DefaultLat, DefaultLon, answer)} :
         /\ gh' = Append(gh, g.self)
         /\ net' = net \o Fetch(Len(gh) + 1, g.request, answer)
         /\ UNCHANGED <<im, size, reads, out, mhash, raised>>

NextDerive == Construct

SpecDerive == InitDerive /\ [][NextDerive]_vars

\* ------------------------------------------------------------------------
\* SpecRender: a comic whose template is loaded, and the six field renderers
\* run on it in any order, each once, until one raises
\* ------------------------------------------------------------------------

RenderIndexValues == {Num(1045868, 2), Inf}

\* the glyph images: as drawn for the comic, as large as the layout has room
\* for, and wider than that
RenderSizes ==
  {GlyphSize(5, 10, 11, 15), GlyphSize(22, 22, 22, 45), GlyphSize(23, 23, 23, 15)}

InitRender ==
  \E dowjones \in RenderIndexValues, place \in Places, answer \in Answers :
    \E g \in {NewGeohashing(Date(2005, 5, 26), dowjones, place[1], place[2], answer)} :
      /\ gh = <<g.self>>
      /\ im = Template
      /\ size \in RenderSizes
      /\ net = Fetch(1, g.request, answer)
      /\ reads = <<>>
      /\ out = <<>>
      /\ mhash = None
      /\ raised = "none"

\* whether renderer name ran to completion on the canvas held in im
Applied(name) ==
  /\ im # None
  /\ \E j \in 1..Len(im.applied) : im.applied[j] = name

\* only draw_dowjones reads the dowjones property: no other renderer can
\* reach the index source
Asked(name) == IF name = "draw_dowjones" THEN Answers ELSE {NotFound}

\* self.<name>() on the loaded canvas
Render(name) ==
  \E answer \in Asked(name) :
    \E d \in {Draw(name, gh[1], im, size, answer)} :
      /\ gh' = <<d.self>>
      /\ im' = d.im
      /\ raised' = d.raised
      /\ reads' = reads \o Read(d.value)
      /\ net' = net \o Fetch(1, d.request, answer)
      /\ UNCHANGED <<size, out, mhash>>

\* each renderer runs once, and none runs after one has raised
MayRun(name) == raised = "none" /\ ~Applied(name)

DrawDate ==
  /\ MayRun("draw_date")
  /\ Render("draw_date")

DrawDowjones ==
  /\ MayRun("draw_dowjones")
  /\ Render("draw_dowjones")

DrawHash ==
  /\ MayRun("draw_hash")
  /\ Render("draw_hash")

DrawLatitude ==
  /\ MayRun("draw_latitude")
  /\ Render("draw_latitude")

DrawLongitude ==
  /\ MayRun("draw_longitude")
  /\ Render("draw_longitude")

DrawCoordinateDecimals ==
  /\ MayRun("draw_coordinate_decimals")
  /\ Render("draw_coordinate_decimals")

NextRender ==
  \/ DrawDate
  \/ DrawDowjones
  \/ DrawHash
  \/ DrawLatitude
  \/ DrawLongitude
  \/ DrawCoordinateDecimals

SpecRender == InitRender /\ [][NextRender]_vars

\* ------------------------------------------------------------------------
\* SpecDigest: any digest in the hash object, unpacked by the end of
\* Geohashing.__init__, then drawn, once the template is loaded, by the two
\* renderers that read it
\* ------------------------------------------------------------------------

\* digest halves: 0, 2^64 - 1, 2^64 - 1024, 2^64 - 1025, the first half of the
\* comic's own digest, 0.1234567 * 2^64 and 12345
Halves ==
  { <<0, 0, 0, 0, 0, 0, 0, 0>>,
    <<255, 255, 255, 255, 255, 255, 255, 255>>,
    <<255, 255, 255, 255, 255, 255, 252, 0>>,
    <<255, 255, 255, 255, 255, 255, 251, 255>>,
    <<219, 147, 24, 194, 37, 153, 35, 208>>,
    <<31, 154, 221, 55, 70, 245, 134, 0>>,
    <<0, 0, 0, 0, 0, 0, 48, 57>> }

DigestSizes == {GlyphSize(5, 10, 11, 15), GlyphSize(7, 9, 13, 20)}

InitDigest ==
  /\ gh = <<>>
  /\ im = None
  /\ size \in DigestSizes
  /\ net = <<>>
  /\ reads = <<>>
  /\ out = <<>>
  /\ mhash \in {[kind |-> "md5", digest |-> a \o b] : a \in Halves, b \in Halves}
  /\ raised = "none"

\* lines 37-40 of __init__, on the object of the comic's default arguments
UnpackDigest ==
  /\ gh = <<>>
  /\ gh' = <<Unpack(Fields(Date(2005, 5, 26), Num(1045868, 2),
                           DefaultLat, DefaultLon), mhash.digest)>>
  /\ UNCHANGED <<im, size, net, reads, out, mhash, raised>>

\* line 190 of make(): self.im = Image.open("geohashingclean.png")
LoadTemplate ==
  /\ gh # <<>>
  /\ im = None
  /\ im' = Template
  /\ UNCHANGED <<gh, size, net, reads, out, mhash, raised>>

HashDigest ==
  /\ im # None
  /\ MayRun("draw_hash")
  /\ Render("draw_hash")

DecimalsDigest ==
  /\ im # None
  /\ MayRun("draw_coordinate_decimals")
  /\ Render("draw_coordinate_decimals")

NextDigest == UnpackDigest \/ LoadTemplate \/ HashDigest \/ DecimalsDigest

SpecDigest == InitDigest /\ [][NextDigest]_vars

\* ------------------------------------------------------------------------
\* What the claims are stated with
\* ------------------------------------------------------------------------

\* the pastes renderer name made on the canvas in im, in order
PastesBy(name) == SelectSeq(im.pastes, LAMBDA p : p.by = name)

\* those of them made on row y
PastesOn(name, y) == SelectSeq(im.pastes, LAMBDA p : p.by = name /\ p.y = y)

DigitKeys == {DecChars[k] : k \in 1..10}

\* ------------------------------------------------------------------------
\* C1 (SpecDerive)
\* ------------------------------------------------------------------------

SameSeed(i, j) == gh[i].date = gh[j].date /\ gh[i].arg = gh[j].arg

SameDerived(i, j) ==
  /\ gh[i].hexdig = gh[j].hexdig
  /\ gh[i].lato = gh[j].lato
  /\ gh[i].lono = gh[j].lono

\* what the index source answered to the construction of object i
AnswersTo(i) == {net[k].answer : k \in {k \in 1..Len(net) : net[k].obj = i}}

\* C1 as stated: two Geohashing objects constructed with the same date and the
\* same index value have the same hexdig, lato and lono, whatever the index
\* value (0.0 included) and whatever the index source answered.
C1_Deterministic ==
  \A i, j \in 1..Len(gh) : SameSeed(i, j) => SameDerived(i, j)

\* C1, amended: two Geohashing objects constructed with the same date and the
\* same index value have the same hexdig, lato and lono if the index value is
\* not 0.0 (the source is then not asked), or if it is 0.0 and the source gave
\* both constructions the same answer.
C1_DeterministicGivenAnswer ==
  \A i, j \in 1..Len(gh) :
    (SameSeed(i, j) /\ (Truthy(gh[i].arg) \/ AnswersTo(i) = AnswersTo(j)))
      => SameDerived(i, j)

\* two objects of the same date and the same finite index value, the source
\* not asked
C1_Witness ==
  /\ Len(gh) = 2
  /\ SameSeed(1, 2)
  /\ gh[1].arg = Num(1045868, 2)
  /\ net = <<>>
  /\ Len(gh[1].hexdig) = 32
  /\ SameDerived(1, 2)

\* ------------------------------------------------------------------------
\* C2 (SpecDigest)
\* ------------------------------------------------------------------------

\* a float of the 9-byte form is below 1.0 iff its first byte is 0
BelowOne(v) == v[1] = 0

\* C2 as stated: for every digest, lato and lono lie in [0, 1); a half of
\* zeros gives exactly 0.0 and a half of ones a value strictly below 1.0.
C2_FractionsInUnitInterval ==
  \A k \in 1..Len(gh) :
    /\ BelowOne(gh[k].lato) /\ BelowOne(gh[k].lono)
    /\ (\A j \in 1..8 : mhash.digest[j] = 0) => gh[k].lato = FloatZero
    /\ (\A j \in 9..16 : mhash.digest[j] = 0) => gh[k].lono = FloatZero
    /\ (\A j \in 1..8 : mhash.digest[j] = 255) => gh[k].lato # FloatOne
    /\ (\A j \in 9..16 : mhash.digest[j] = 255) => gh[k].lono # FloatOne

\* ------------------------------------------------------------------------
\* C3, C7, C8 (SpecRender)
\* ------------------------------------------------------------------------

\* C3 as stated: for latitude 37.421542, draw_latitude pastes exactly 8 glyphs
\* on the primary row y = 168, all digits, and exactly the first 3 of those 8
\* again at (cursor + 110, 266).
C3_MirrorsThreeGlyphs ==
  (gh[1].lat = DefaultLat /\ Applied("draw_latitude")) =>
    LET P == PastesOn("draw_latitude", 168)
        M == PastesOn("draw_latitude", 266)
    IN  /\ Len(P) = 8
        /\ \A k \in 1..Len(P) : P[k].c \in DigitKeys
        /\ Len(M) = 3
        /\ \A k \in 1..Len(M) : M[k].c = P[k].c /\ M[k].x = P[k].x + 110

\* C3, amended: for latitude 37.421542, formatted "+37.421542", draw_latitude
\* pastes exactly 8 glyphs on the primary row y = 168, the digits 37421542, and
\* pastes again at (cursor + 110, 266) exactly those that stand at an index
\* below 3 of the formatted string: the first 2 of the 8, "3" and "7" (the "+"
\* at index 0 is not pasted).
C3_MirrorsFirstThreeCharacters ==
  (gh[1].lat = DefaultLat /\ Applied("draw_latitude")) =>
    LET P == PastesOn("draw_latitude", 168)
        M == PastesOn("draw_latitude", 266)
    IN  /\ Len(P) = 8
        /\ [k \in 1..Len(P) |-> P[k].c] = <<"3", "7", "4", "2", "1", "5", "4", "2">>
        /\ Len(PastesBy("draw_latitude")) = Len(P) + Len(M)
        /\ Len(M) = 2
        /\ \A k \in 1..Len(M) :
             /\ M[k].c = P[k].c
             /\ M[k].x = P[k].x + 110
             /\ M[k].i = P[k].i
        /\ \A k \in 1..Len(P) : (P[k].i < 3) <=> (k <= Len(M))

\* draw_latitude has run on the comic of latitude 37.421542 and mirrored "7"
C3_Witness ==
  /\ gh[1].lat = DefaultLat
  /\ Applied("draw_latitude")
  /\ \E k \in 1..Len(im.pastes) :
       /\ im.pastes[k].by = "draw_latitude"
       /\ im.pastes[k].c = "7"
       /\ im.pastes[k].y = 266
       /\ im.pastes[k].x = 25 + 9 + 10 + 110

\* the formatted longitude, and the rule table evaluated once
LonStr == FormatFloat(gh[1].lon, TRUE, 11, 6)

LonRule(c, i) ==
  10 + (IF c = "1" /\ i > 4 THEN -5 ELSE 0)
     + (IF c = "." THEN 3 ELSE 0)
     + (IF c = "-" THEN -1 ELSE 0)
     + (IF c = "+" THEN -2 ELSE 0)
     + (IF c = " " THEN -2 ELSE 0)

\* the cursor after k characters, by single evaluations of the rule table
LonCursor(k) == 143 + SumSeq([j \in 1..k |-> LonRule(LonStr[j], j - 1)])

\* C7: in draw_longitude, for every character and position of the formatted
\* longitude, offset_change + offset_change2 - offset_change3 equals one
\* evaluation of the rule table, so the glyph of the character at index i is
\* pasted at cursor 143 plus the i single deltas before it (and, for i < 4,
\* again 138 to the right of it).
C7_SingleRuleAdvance ==
  Applied("draw_longitude") =>
    /\ \A j \in 1..Len(LonStr) : LonAdvance(LonStr[j], j - 1) = LonRule(LonStr[j], j - 1)
    /\ \A k \in 1..Len(im.pastes) :
         LET p == im.pastes[k]
         IN  p.by = "draw_longitude" =>
               /\ p.c = LonStr[p.i + 1]
               /\ p.y = 169 => p.x = LonCursor(p.i)
               /\ p.y = 269 => p.x = LonCursor(p.i) + 138 /\ p.i < 4
               /\ p.y \in {169, 269}

\* draw_longitude has run on a longitude with a "1" after index 4, a dot and
\* a sign: every rule of the table has fired
C7_Witness ==
  /\ Applied("draw_longitude")
  /\ \E j \in 1..Len(LonStr) : LonStr[j] = "1" /\ j - 1 > 4
  /\ \E j \in 1..Len(LonStr) : LonStr[j] = " "
  /\ \E j \in 1..Len(LonStr) : LonStr[j] = "+"
  /\ \E k \in 1..Len(im.pastes) :
       /\ im.pastes[k].by = "draw_longitude"
       /\ im.pastes[k].i = Len(LonStr) - 1
       /\ im.pastes[k].x = LonCursor(Len(LonStr) - 1)

\* C8 as stated: draw_latitude never pastes a glyph for a space, a sign ("+"
\* or "-") or the decimal point: every glyph it pastes, on the primary row and
\* at the mirrored position, is a digit glyph.
C8_PastesOnlyDigits ==
  \A k \in 1..Len(im.pastes) :
    im.pastes[k].by = "draw_latitude" => im.pastes[k].c \in DigitKeys

\* C8, amended: draw_latitude never looks up or pastes a glyph for a space, a
\* "+" or the decimal point, for any latitude positive or negative: every
\* glyph it pastes, on the primary row and at the mirrored position, is a
\* digit glyph or, for a negative latitude, the glyph of "-".
C8_PastesDigitsAndMinus ==
  /\ \A k \in 1..Len(im.pastes) :
       im.pastes[k].by = "draw_latitude" =>
         \/ im.pastes[k].c \in DigitKeys
         \/ im.pastes[k].c = "-" /\ gh[1].lat.n < 0
  /\ LET A == draw_latitude(gh[1])
     IN  /\ \A k \in 1..Len(A) : A[k].c \in DigitKeys \cup {"-"}
         /\ Applied("draw_latitude") => PastesBy("draw_latitude") = A

\* draw_latitude has run on a negative latitude and pasted "-" on both rows
C8_Witness ==
  /\ Applied("draw_latitude")
  /\ gh[1].lat.n < 0
  /\ \E k \in 1..Len(im.pastes) :
       im.pastes[k].by = "draw_latitude" /\ im.pastes[k].c = "-" /\ im.pastes[k].y = 168
  /\ \E k \in 1..Len(im.pastes) :
       im.pastes[k].by = "draw_latitude" /\ im.pastes[k].c = "-" /\ im.pastes[k].y = 266

\* ------------------------------------------------------------------------
\* C6 (SpecRender): im.paste and the canvas
\*
\* im.paste(glyph, (x, y)) overwrites the box of the glyph's size whose upper
\* left corner is (x, y).  The content it gives a pixel is held as the glyph
\* and the pixel's place in it: the glyph images are free, so any two places
\* of glyph images may hold different colours.
\* ------------------------------------------------------------------------

Max(a, b) == IF a > b THEN a ELSE b
Min(a, b) == IF a < b THEN a ELSE b

\* whether the boxes of pastes p and q share a pixel
Overlap(p, q, sz) ==
  /\ p.y < q.y + sz.h /\ q.y < p.y + sz.h
  /\ p.x < q.x + sz.w[q.c] /\ q.x < p.x + sz.w[p.c]

\* the pixels the boxes of p and q share
Shared(p, q, sz) ==
  (Max(p.x, q.x)..(Min(p.x + sz.w[p.c], q.x + sz.w[q.c]) - 1))
    \X (Max(p.y, q.y)..(Min(p.y + sz.h, q.y + sz.h) - 1))

\* the pixels written by two different renderers
Contested(pastes, sz) ==
  UNION {Shared(pastes[jk[1]], pastes[jk[2]], sz) :
           jk \in {jk \in (1..Len(pastes)) \X (1..Len(pastes)) :
                     /\ jk[1] < jk[2]
                     /\ pastes[jk[1]].by # pastes[jk[2]].by
                     /\ Overlap(pastes[jk[1]], pastes[jk[2]], sz)}}

Covers(p, sz, px) ==
  /\ p.x <= px[1] /\ px[1] < p.x + sz.w[p.c]
  /\ p.y <= px[2] /\ px[2] < p.y + sz.h

\* the content of a pixel some paste covers: that of the last paste covering it
PixelAt(pastes, sz, px) ==
  LET last == CHOOSE j \in 1..Len(pastes) :
                /\ Covers(pastes[j], sz, px)
                /\ \A k \in (j + 1)..Len(pastes) : ~Covers(pastes[k], sz, px)
  IN  <<pastes[last].c, px[1] - pastes[last].x, px[2] - pastes[last].y>>

\* Two canvases on which every renderer made the same pastes in the same
\* order hold the same pixels iff they agree on the contested ones: a pixel
\* that one renderer alone writes gets what that renderer's pastes give it.
SameCanvas(p, q, sz) ==
  /\ \A j \in 1..Len(Renderers) :
       SelectSeq(p, LAMBDA a : a.by = Renderers[j])
         = SelectSeq(q, LAMBDA a : a.by = Renderers[j])
  /\ \A px \in Contested(p, sz) : PixelAt(p, sz, px) = PixelAt(q, sz, px)

AllApplied == im # None /\ Len(im.applied) = Len(Renderers)

\* C6 as stated: run after the template is loaded, every permutation of the
\* six renderers produces the same final canvas as the order of make(), for
\* every input and every glyph width.
C6_RenderersCommute ==
  AllApplied => SameCanvas(im.pastes, make(gh[1], size, NotFound).im.pastes, size)

\* the room the layout leaves: the mirrored latitude ends at most at
\* x = 25 + 9 + 10 + 110 (its third character) and the mirrored decimals
\* start at 176; the second row of the hash is at y = 129 and the decimals
\* at y = 174
MaxGlyphWidth  == 176 - (25 + 9 + 10 + 110)
MaxGlyphHeight == 174 - 129

FitsLayout(sz) ==
  /\ sz.h <= MaxGlyphHeight
  /\ \A c \in GlyphKeys : sz.w[c] <= MaxGlyphWidth

\* |lat| <= 90, |lon| <= 180, and an index value that is finite, not 0.0 (so
\* that draw_dowjones does not ask the source) and below 10^6 in magnitude
InRange(self) ==
  /\ self.lat.kind = "num" /\ Abs(self.lat.n) <= 90 * (10 ^ self.lat.scale)
  /\ self.lon.kind = "num" /\ Abs(self.lon.n) <= 180 * (10 ^ self.lon.scale)
  /\ self._dowjones.kind = "num"
  /\ self._dowjones.n # 0
  /\ Abs(self._dowjones.n) < (10 ^ 6) * (10 ^ self._dowjones.scale)

\* C6, amended: run after the template is loaded, every permutation of the
\* six renderers produces the same final canvas as the order of make(), and
\* no pixel is written by two different renderers, provided every glyph is at
\* most 22 pixels wide and 45 high, |lat| <= 90, |lon| <= 180 and the index
\* value the object holds is finite, not 0.0 and below 10^6 in magnitude.
C6_RenderersCommuteWithinLayout ==
  (AllApplied /\ FitsLayout(size) /\ InRange(gh[1])) =>
    /\ Contested(im.pastes, size) = {}
    /\ SameCanvas(im.pastes, make(gh[1], size, NotFound).im.pastes, size)

\* all six renderers have run, the decimals before the latitude, with the
\* largest glyphs the layout has room for
C6_Witness ==
  /\ AllApplied
  /\ InRange(gh[1])
  /\ \A c \in GlyphKeys : size.w[c] = MaxGlyphWidth
  /\ size.h = MaxGlyphHeight
  /\ im.applied[1] = "draw_coordinate_decimals"
  /\ im.applied[6] = "draw_latitude"

\* ------------------------------------------------------------------------
\* C9 (SpecDigest)
\* ------------------------------------------------------------------------

\* the widths of glyphs from + 1 .. from + k of hexdig, summed
HashWidth(from, k) == SumSeq([j \in 1..k |-> size.w[gh[1].hexdig[from + j]]])

\* C9: draw_hash pastes glyph k of hexdig[0:16] at x = 301 + the widths of
\* glyphs 0..k-1 on row 82 and at that x - 9 on row 129, and glyph k of
\* hexdig[16:32] on row 82 at x = 301 + the width of the first 16 + 14 + the
\* widths of second-half glyphs 0..k-1 and on row 129 at 466 + that same sum:
\* 64 pastes, for every digest and every assignment of glyph widths.
C9_HashPlacement ==
  Applied("draw_hash") =>
    LET P   == PastesBy("draw_hash")
        hex == gh[1].hexdig
        At(p, c, x, y) == p.c = c /\ p.x = x /\ p.y = y
    IN  /\ Len(P) = 64
        /\ \A k \in 0..15 :
             /\ At(P[2 * k + 1], hex[k + 1], 301 + HashWidth(0, k), 82)
             /\ At(P[2 * k + 2], hex[k + 1], 301 + HashWidth(0, k) - 9, 129)
             /\ At(P[2 * k + 33], hex[k + 17],
                   301 + HashWidth(0, 16) + 14 + HashWidth(16, k), 82)
             /\ At(P[2 * k + 34], hex[k + 17], 466 + HashWidth(16, k), 129)

\* draw_hash has run on a digest whose glyphs are not all of one width
C9_Witness ==
  /\ Applied("draw_hash")
  /\ Len(PastesBy("draw_hash")) = 64
  /\ \E j, k \in 17..32 : size.w[gh[1].hexdig[j]] # size.w[gh[1].hexdig[k]]
  /\ \E j \in 17..32 : size.w[gh[1].hexdig[j]] # 10

\* ------------------------------------------------------------------------
\* C4, C5, C10 (Spec)
\* ------------------------------------------------------------------------

\* C4 as stated: draw_coordinate_decimals always draws the first 6 decimal
\* digits of lato and of lono: for every i in 0..5 the i-th lat digit at
\* (300 + 10i, 174) and (176 + 10i, 267) and the i-th lon digit at
\* (450 + 10i, 174) and (335 + 10i, 269), 24 pastes in total.
C4_FirstSixDecimals ==
  Applied("draw_coordinate_decimals") =>
    LET P == PastesBy("draw_coordinate_decimals")
        a == DigitChars(DecimalDigits(Tail(gh[1].lato), 6))
        b == DigitChars(DecimalDigits(Tail(gh[1].lono), 6))
        At(p, c, x, y) == p.c = c /\ p.x = x /\ p.y = y
    IN  /\ Len(P) = 24
        /\ \A i \in 0..5 :
             /\ At(P[4 * i + 1], a[i + 1], 300 + 10 * i, 174)
             /\ At(P[4 * i + 2], a[i + 1], 176 + 10 * i, 267)
             /\ At(P[4 * i + 3], b[i + 1], 450 + 10 * i, 174)
             /\ At(P[4 * i + 4], b[i + 1], 335 + 10 * i, 269)

Complete(image) == Len(image.applied) = Len(Renderers)

\* C5 as stated: after any sequence of make(), show() and cgi() calls the
\* image held in im, and every image handed to show() or cgi(), is absent or
\* has had all six field renderers applied.
C5_NoPartialImage ==
  /\ im = None \/ Complete(im)
  /\ \A k \in 1..Len(out) : Complete(out[k].im)

\* C10 as stated: after construction every read of the dowjones property
\* returns the value that was formatted into the seed string, and the source
\* is asked no more: at most once per object, and not at all if the caller
\* gave an index value.
C10_ResolvedOnce ==
  /\ \A k \in 1..Len(reads) : reads[k] = gh[1].seed
  /\ Len(net) <= 1
  /\ gh[1].arg # Num(0, 2) => net = <<>>

=============================================================================
